---- MODULE Spec2Model ----
(***************************************************************************)
(* Model of gulpfile.js of polymer-starter-kit-plus: the task table built  *)
(* by gulp.task, the orchestration of the tasks by gulp.start and          *)
(* runSequence, the effect of each task on the trees .tmp, dist and        *)
(* deploy, and the deploy tasks.                                           *)
(***************************************************************************)
EXTENDS Integers, Sequences, FiniteSets, TLC

VARIABLES
  cli,       \* "idle": no gulp process; "busy": a gulp process is running
  invoked,   \* the task named on the command line of the current process
  runs,      \* number of gulp processes started so far
  orch,      \* the orchestrator of the running process (task flags, seq, runSequence calls)
  failures,  \* number of task failures so far
  edits,     \* number of changes made to the source tree so far
  userPipe,  \* the steps of the pipeline of the custom task 'scenario'
  app,       \* the style sources under app: content digest, modification time, readable or not
  cwdOut,    \* modification time of <cwd>/<stylesPath>/<file>, or Absent
  tmp,       \* the tree .tmp
  dist,      \* the tree dist (the artifact tree)
  published, \* what each environment serves
  proc,      \* what the current process has done so far (history variable)
  last,      \* what the last process that has exited did (history variable)
  registry,  \* gulp's task table: name -> dependencies and function
  regpc,     \* the number of gulp.task calls of gulpfile.js made so far
  loaded,    \* "gulpfile", then "wct" after the tester's tasks, then "done"
  firstReg   \* for each name, what its first registration bound (history variable)

vars == <<cli, invoked, runs, orch, failures, edits, userPipe, app, cwdOut, tmp, dist,
          published, proc, last, registry, regpc, loaded, firstReg>>

\* ------------------------------------------------------------------ bounds
MaxFailures == 2
MaxCustom == 2
MaxRuns == 2
MaxEdits == 1
MaxTime == 2
NDigests == 2

\* ------------------------------------------------------------- task table
\* runSequence(...) of 'default', gulpfile.js 293-300, in declaration order
DefaultPipelineLoose ==
  << <<"copy", "styles", "elements">>,
     <<"jshint", "images", "fonts", "html", "fetch-newest-analytics">>,
     <<"vulcanize">>,
     <<"clean-dist", "minify-dist">>,
     <<"cache-config">> >>

DefaultPipeline ==
  << <<"copy", "styles">>,
     <<"elements">>,
     <<"jshint", "images", "fonts", "html", "fetch-newest-analytics">>,
     <<"vulcanize">>,
     <<"clean-dist", "minify-dist">>,
     <<"cache-config">> >>

\* runSequence(...) of 'pre-deploy', gulpfile.js 308-312
PreDeployPipelineFlat ==
  << <<"default", "fix-path-sw-toolbox">>, <<"revision">> >>

PreDeployPipeline ==
  << <<"default">>, <<"fix-path-sw-toolbox">>, <<"revision">> >>

DeployTasks == {"deploy:dev", "deploy:stag", "deploy:prod"}

BuildLeafTasks ==
  {"clean", "copy", "styles", "elements", "jshint", "images", "fonts", "html",
   "fetch-newest-analytics", "vulcanize", "clean-dist", "minify-dist",
   "cache-config", "fix-path-sw-toolbox", "revision"}

ScenarioTasks == {"A", "B", "C", "D"}

\* tasks whose function calls runSequence
SeqTasks == {"default", "pre-deploy", "scenario"}

LeafTasks == BuildLeafTasks \cup DeployTasks \cup {"deploy:promote"} \cup ScenarioTasks

Tasks == LeafTasks \cup SeqTasks

\* the calls of gulp.task in gulpfile.js, in the order of the file
Task(n, d) == [name |-> n, dep |-> d, fn |-> "gulpfile.js"]

GulpfileTasks ==
  << Task("styles", {}), Task("elements", {}), Task("jshint", {}), Task("images", {}),
     Task("copy", {}), Task("fonts", {}), Task("html", {}), Task("vulcanize", {}),
     Task("cache-config", {}), Task("clean", {}),
     Task("serve", {"styles", "elements", "images"}), Task("serve:dist", {"default"}),
     Task("clean-dist", {}), Task("fetch-newest-analytics", {}),
     Task("fix-path-sw-toolbox", {}), Task("minify-dist", {}), Task("revision", {}),
     Task("serve:gae", {"default"}), Task("default", {"clean"}), Task("pre-deploy", {}),
     Task("deploy:dev", {"pre-deploy"}), Task("deploy:stag", {"pre-deploy"}),
     Task("deploy:prod", {"pre-deploy"}), Task("deploy:promote", {}),
     Task("pagespeed", {}) >>

\* gulp.task(name, dep, fn): tasks[name] = {name, dep, fn}
Register(reg, e) ==
  [n \in (DOMAIN reg) \cup {e.name} |->
     IF n = e.name THEN [dep |-> e.dep, fn |-> e.fn] ELSE reg[n]]

RECURSIVE RegisterAll(_, _)
RegisterAll(reg, es) ==
  IF es = <<>> THEN reg ELSE RegisterAll(Register(reg, Head(es)), Tail(es))

\* the tasks web-component-tester adds
WctTasks == << [name |-> "test:local", dep |-> {}, fn |-> "web-component-tester"],
               [name |-> "test:remote", dep |-> {}, fn |-> "web-component-tester"] >>

NoTasks == <<>>

\* the task table once gulpfile.js is loaded and the directory tasks is absent
LoadedRegistry == RegisterAll(RegisterAll(NoTasks, GulpfileTasks), WctTasks)

\* the dependency array of a task
DepsNone(t) == {}

DepsPromoteBuilds(t) ==
  IF t = "deploy:promote" THEN {"pre-deploy"}
  ELSE IF t \in DOMAIN LoadedRegistry THEN LoadedRegistry[t].dep ELSE {}

DepsNoClean(t) ==
  IF t = "default" THEN {}
  ELSE IF t \in DOMAIN LoadedRegistry THEN LoadedRegistry[t].dep ELSE {}

Deps(t) == IF t \in DOMAIN LoadedRegistry THEN LoadedRegistry[t].dep ELSE {}

PipelineOf(s) ==
  CASE s = "default" -> DefaultPipeline
    [] s = "pre-deploy" -> PreDeployPipeline
    [] OTHER -> userPipe

Range(q) == {q[i] : i \in 1..Len(q)}

StepSet(s, i) == Range(PipelineOf(s)[i])

\* ------------------------------------------------------------------ files
\* A path of a tree: the path as built, and the fingerprint tokens that
\* revisioning has put before its extension
Path(o) == [orig |-> o, rev |-> <<>>]

pIndex == Path("index.html")
pMain == Path("styles/main.css")
pElCss == Path("elements/el.css")
pElHtml == Path("elements/elements.html")
pVulc == Path("elements/elements.vulcanized.html")
pVulcJs == Path("elements/elements.vulcanized.js")
pApp == Path("scripts/app.js")
pLogo == Path("images/logo.png")
pFont == Path("fonts/roboto.woff")
pToolbox == Path("sw-toolbox/sw-toolbox.js")
pBowerToolbox == Path("../sw-toolbox/sw-toolbox.js")
pWc == Path("bower_components/webcomponentsjs/webcomponents-lite.min.js")
pRoot == Path("./")
pManifest == Path("cache-config.json")

\* the style sources app/styles/**/*.css and app/elements/**/*.css
StyleSrc(stylesPath) ==
  CASE stylesPath = "styles" -> {"styles/main.css"}
    [] stylesPath = "elements" -> {"elements/el.css"}

StyleFiles == StyleSrc("styles") \cup StyleSrc("elements")

\* the first directory of a path and its extension
TopDir(o) ==
  CASE o \in {"styles/main.css"} -> "styles"
    [] o \in {"elements/el.css", "elements/elements.html",
              "elements/elements.vulcanized.html", "elements/elements.vulcanized.js"}
         -> "elements"
    [] o = "scripts/app.js" -> "scripts"
    [] o = "images/logo.png" -> "images"
    [] o = "fonts/roboto.woff" -> "fonts"
    [] o = "sw-toolbox/sw-toolbox.js" -> "sw-toolbox"
    [] o = "bower_components/webcomponentsjs/webcomponents-lite.min.js" -> "bower_components"
    [] OTHER -> ""

Ext(o) ==
  CASE o \in {"styles/main.css", "elements/el.css"} -> "css"
    [] o \in {"index.html", "elements/elements.html", "elements/elements.vulcanized.html"}
         -> "html"
    [] o \in {"elements/elements.vulcanized.js", "scripts/app.js", "sw-toolbox/sw-toolbox.js",
              "bower_components/webcomponentsjs/webcomponents-lite.min.js"} -> "js"
    [] o = "images/logo.png" -> "png"
    [] o = "fonts/roboto.woff" -> "woff"
    [] o = "cache-config.json" -> "json"
    [] OTHER -> ""

\* alphabetical order of the paths, the order in which glob lists them
SortedOrigs ==
  <<"bower_components/webcomponentsjs/webcomponents-lite.min.js", "cache-config.json",
    "elements/el.css", "elements/elements.html", "elements/elements.vulcanized.html",
    "elements/elements.vulcanized.js", "fonts/roboto.woff", "images/logo.png",
    "index.html", "scripts/app.js", "styles/main.css", "sw-toolbox/sw-toolbox.js">>

\* the digest of a value: equal values have equal digests, and no two
\* values of the model collide
Md5(x) == [alg |-> "md5", of |-> x]

NoFp == [alg |-> "none", of |-> <<>>]

\* The content of a file: where its bytes come from (src, version v), the
\* transforms applied (ops), the paths it refers to (refs) and, for the
\* cache manifest, its fields
File(src, v, ops, refs) ==
  [src |-> src, v |-> v, ops |-> ops, refs |-> refs,
   cacheId |-> "", disabled |-> FALSE, precache |-> <<>>, fp |-> NoFp]

EmptyTree == <<>>

Put(tree, p, c) == [q \in (DOMAIN tree) \cup {p} |-> IF q = p THEN c ELSE tree[q]]

Remove(tree, p) == [q \in (DOMAIN tree) \ {p} |-> tree[q]]

Has(tree, p) == p \in DOMAIN tree

Merge(tree, f) ==
  [q \in (DOMAIN tree) \cup (DOMAIN f) |-> IF q \in DOMAIN f THEN f[q] ELSE tree[q]]

Apply(c, op) == [c EXCEPT !.ops = Append(@, op)]

\* the files of app and bower_components that the tasks read
SrcIndex == File("index.html", 0, <<>>, {pElHtml, pMain, pApp, pWc})
SrcElements == File("elements/elements.html", 0, <<>>, {pElCss})
SrcApp == File("scripts/app.js", 0, <<>>, {})
SrcLogo == File("images/logo.png", 0, <<>>, {})
SrcFont == File("fonts/roboto.woff", 0, <<>>, {})
SrcToolbox == File("bower_components/sw-toolbox/sw-toolbox.js", 0, <<>>, {})
SrcWc == File("bower_components/webcomponentsjs/webcomponents-lite.min.js", 0, <<>>, {})
SrcStyle(a, o) == File(o, a.digest[o], <<>>, {})

\* ---------------------------------------------------------------- styleTask
Absent == -1

\* $.changed(stylesPath, {extension: '.css'}): a source file passes when the
\* file of the same relative path under the directory stylesPath of the
\* working directory does not exist or is older than the source
Changed(a, out, o) == out[o] = Absent \/ a.mtime[o] > out[o]

Passing(a, out, stylesPath) ==
  {o \in StyleSrc(stylesPath) : Changed(a, out, o)}

\* .pipe($.autoprefixer(...)).pipe(gulp.dest('.tmp/' + stylesPath))
StyleTmp(t, a, pass) ==
  Merge(t, [p \in {Path(o) : o \in pass} |-> Apply(SrcStyle(a, p.orig), "autoprefixer")])

\* .pipe($.if('*.css', $.cssmin())).pipe(gulp.dest('dist/' + stylesPath))
StyleDist(d, a, pass) ==
  Merge(d, [p \in {Path(o) : o \in pass} |->
              Apply(Apply(SrcStyle(a, p.orig), "autoprefixer"), "cssmin")])

\* --------------------------------------------------------------- other tasks
\* 'clean': del(['.tmp', 'dist', 'deploy']); no task of the model writes deploy
CleanKeeps(d) == d

CleanTree(d) == EmptyTree

\* 'copy': the five streams merged, each written under dist
CopyDist(d) ==
  Merge(d, [p \in {pIndex, pWc, pElHtml, pVulc, pToolbox} |->
              CASE p = pIndex -> SrcIndex
                [] p = pWc -> SrcWc
                [] p = pElHtml -> SrcElements
                [] p = pVulc -> SrcElements
                [] OTHER -> SrcToolbox])

ImagesDist(d) == Put(d, pLogo, Apply(SrcLogo, "imagemin"))

FontsDist(d) == Put(d, pFont, SrcFont)

\* 'html': the reference to elements.html replaced, the assets of the build
\* blocks minified, the markup minified, all written under dist
HtmlDist(d) ==
  LET idx == [SrcIndex EXCEPT
                !.refs = (@ \ {pElHtml}) \cup {pVulc},
                !.ops = <<"replace", "useref", "minifyHtml">>]
  IN Put(Put(d, pIndex, idx), pApp, Apply(SrcApp, "uglify"))

\* 'vulcanize': dist/elements/elements.vulcanized.html inlined and split
\* into markup and script, both written to dist/elements
VulcanizeDist(d) ==
  IF ~Has(d, pVulc) THEN d
  ELSE LET html == [d[pVulc] EXCEPT
                      !.ops = @ \o <<"vulcanize", "crisper", "htmlmin">>,
                      !.refs = {pVulcJs}]
           js == [d[pVulc] EXCEPT
                    !.ops = @ \o <<"vulcanize", "crisper", "uglify">>,
                    !.refs = {pBowerToolbox}]
       IN Put(Put(d, pVulc, html), pVulcJs, js)

\* 'clean-dist': the sources that vulcanize has inlined are removed from dist
CleanDistDist(d) == Remove(d, pElHtml)

\* 'minify-dist': the scripts of dist that are not minified yet are minified
MinifyDistDist(d) ==
  [p \in DOMAIN d |->
     IF Ext(p.orig) = "js" /\ \A i \in 1..Len(d[p].ops) : d[p].ops[i] # "uglify"
     THEN Apply(d[p], "uglify") ELSE d[p]]

\* ------------------------------------------------------------- cache-config
OrigIndex(o) ==
  IF \E i \in 1..Len(SortedOrigs) : SortedOrigs[i] = o
  THEN CHOOSE i \in 1..Len(SortedOrigs) : SortedOrigs[i] = o
  ELSE 0

SortKey(p) == 4 * OrigIndex(p.orig) + Len(p.rev)

RECURSIVE SortPaths(_)
SortPaths(S) ==
  IF S = {} THEN <<>>
  ELSE LET m == CHOOSE p \in S : \A q \in S : SortKey(p) <= SortKey(q)
       IN <<m>> \o SortPaths(S \ {m})

PrecacheDirs == {"elements", "scripts", "styles"}

\* glob('{elements,scripts,styles}/**/*.*', {cwd: dir}, ...)
Glob(d) == SortPaths({p \in DOMAIN d : TopDir(p.orig) \in PrecacheDirs})

CacheId == "packageJson.name"

\* the config object written as dist/cache-config.json
ManifestOf(globbed) ==
  LET files == globbed \o <<pIndex, pRoot, pWc>>
  IN [File("cache-config.json", 0, <<"JSON.stringify">>, {}) EXCEPT
        !.cacheId = CacheId,
        !.disabled = FALSE,
        !.precache = files,
        !.fp = Md5(files)]

Manifest(d) == ManifestOf(Glob(d))

\* where cache-config stands after the callback of glob: callback(error) has
\* been called, or fs.writeFile is under way
AfterGlobNoElse(error) == "write"

AfterGlob(error) == IF error THEN "called" ELSE "write"

\* what a failed fs.writeFile may leave: no file, or a file cut short
Truncated == File("cache-config.json", 0, <<"truncated">>, {})

CacheConfigDist(d) == Put(d, pManifest, Manifest(d))

\* ------------------------------------------ fix-path-sw-toolbox, revision
IsText(p) == Ext(p.orig) \in {"html", "js", "css", "json"}

MapPath(m, r) == IF r \in DOMAIN m THEN m[r] ELSE r

\* the references of a text file replaced after the mapping m
RewriteRefsMarkupOnly(m, p, c) ==
  IF Ext(p.orig) = "html" THEN [c EXCEPT !.refs = {MapPath(m, r) : r \in c.refs}] ELSE c

RewriteRefs(m, p, c) ==
  IF IsText(p)
  THEN [c EXCEPT !.refs = {MapPath(m, r) : r \in c.refs},
                 !.precache = [i \in DOMAIN c.precache |-> MapPath(m, c.precache[i])]]
  ELSE c

\* 'fix-path-sw-toolbox': the path to sw-toolbox.js of the bower layout is
\* replaced by its path in dist
FixPathDist(d) ==
  LET m == [r \in {pBowerToolbox} |-> pToolbox]
  IN [p \in DOMAIN d |-> RewriteRefs(m, p, d[p])]

RevExts == {"css", "js", "png", "woff"}

\* a file is revisioned when it is an asset that carries no fingerprint yet
EligibleAgain(p) == Ext(p.orig) \in RevExts

Eligible(p) == p.rev = <<>> /\ Ext(p.orig) \in RevExts

\* the fingerprint token of a file: the digest of its content
RevToken(c) == Md5(c)

\* the token is put before the extension
RevPath(p, c) == [p EXCEPT !.rev = Append(@, RevToken(c))]

Unrev(p) == [p EXCEPT !.rev = <<>>]

RevMapping(d) == [p \in {q \in DOMAIN d : Eligible(q)} |-> RevPath(p, d[p])]

\* 'revision': each eligible file is renamed after its content and the
\* references to it in the text files are replaced
RevisionDist(d) ==
  LET m == RevMapping(d)
  IN [q \in {MapPath(m, p) : p \in DOMAIN d} |->
        LET p == CHOOSE x \in DOMAIN d : MapPath(m, x) = q
        IN RewriteRefs(m, p, d[p])]

\* the revision record: original path -> revisioned path, for the files
\* renamed now and for those that carried their fingerprint already
RevRecord(d) ==
  LET m == RevMapping(d)
      old == {q \in DOMAIN d : q.rev # <<>>}
  IN [p \in (DOMAIN m) \cup {Unrev(q) : q \in old} |->
        IF p \in DOMAIN m THEN m[p] ELSE CHOOSE q \in old : Unrev(q) = p]

\* ------------------------------------------------------------------ deploy
Envs == {"development", "staging", "production"}

EnvOf(t) ==
  CASE t = "deploy:dev" -> "development"
    [] t = "deploy:stag" -> "staging"
    [] OTHER -> "production"

\* the publish procedure of environment env on the artifact tree d
Publish(pub, env, d) == [pub EXCEPT ![env] = d]

\* promote: the published state of staging is copied to production
Promote(pub) == [pub EXCEPT !["production"] = pub["staging"]]

\* ------------------------------------------------------------ orchestrator
\* no error; steps are counted from 0
NoErr == [task |-> "none", step |-> -1]

IdleRs == [active |-> FALSE, idx |-> 0, cur |-> {}, err |-> NoErr]

FreshOrch ==
  [st |-> [t \in Tasks |-> "idle"],
   seq |-> {},
   rs |-> [s \in SeqTasks |-> IdleRs],
   isRunning |-> FALSE,
   firstErr |-> NoErr]

\* the tasks gulp.start(names) puts in the run: the names and their dependencies
WithDeps(names) ==
  LET d1 == names \cup UNION {Deps(t) : t \in names}
  IN d1 \cup UNION {Deps(t) : t \in d1}

\* the order in which gulp's listeners were added: the outer runSequence first
ListenerOrder == <<"pre-deploy", "default", "scenario">>

ActiveListeners(S) == SelectSeq(ListenerOrder, LAMBDA s : S.rs[s].active)

\* the index of the step of the innermost runSequence that is running task t
StepOf(S, t) ==
  LET holders == {s \in SeqTasks : S.rs[s].active /\ t \in StepSet(s, S.rs[s].idx)}
  IN IF holders = {} THEN -1 ELSE S.rs[CHOOSE s \in holders : TRUE].idx - 1

RECURSIVE RunStep(_)
RECURSIVE StartNames(_, _)
RECURSIVE TaskStop(_, _)
RECURSIVE EmitStop(_, _, _)
RECURSIVE TaskErr(_, _)
RECURSIVE EmitErr(_, _, _)

\* gulp.start(names): the named tasks and their dependencies are reset and
\* added to the run, then every task that is ready is started
StartNames(S, names) ==
  LET all == WithDeps(names)
  IN RunStep([S EXCEPT
       !.st = [t \in Tasks |->
                 IF t \in all /\ S.st[t] \in {"done", "failed"} THEN "idle" ELSE S.st[t]],
       !.seq = S.seq \cup all,
       !.isRunning = TRUE])

\* a task is started when each of its dependencies is done
ReadyTasks(S) ==
  {t \in S.seq : S.st[t] = "idle" /\ \A d \in Deps(t) : S.st[d] = "done"}

\* the first step of runSequence: listeners added, first set started
BeginSequence(S, s) ==
  [S EXCEPT !.st[s] = "running",
            !.rs[s] = [active |-> TRUE, idx |-> 1, cur |-> StepSet(s, 1), err |-> NoErr]]

RunStep(S) ==
  IF ~S.isRunning THEN S
  ELSE LET ready == ReadyTasks(S)
       IN IF ready = {}
          THEN IF \A t \in S.seq : S.st[t] = "done"
               THEN [S EXCEPT !.isRunning = FALSE]
               ELSE S
          ELSE LET t == CHOOSE x \in ready : TRUE
               IN IF t \in SeqTasks
                  THEN RunStep(StartNames(BeginSequence(S, t), StepSet(t, 1)))
                  ELSE RunStep([S EXCEPT !.st[t] = "running"])

\* runNextSet of runSequence s: the next set is started, or the callback of
\* the task s is called when no set is left
RunNextSet(S, s) ==
  LET i == S.rs[s].idx
  IN IF i < Len(PipelineOf(s))
     THEN StartNames([S EXCEPT !.rs[s].idx = i + 1, !.rs[s].cur = StepSet(s, i + 1)],
                     StepSet(s, i + 1))
     ELSE TaskStop([S EXCEPT !.rs[s].active = FALSE, !.rs[s].cur = {}], s)

\* onTaskEnd of runSequence s for the event task_stop of t
OnTaskEnd(S, s, t) ==
  IF ~S.rs[s].active THEN S
  ELSE LET cur == S.rs[s].cur \ {t}
           S1 == [S EXCEPT !.rs[s].cur = cur]
       IN IF cur = {} THEN RunNextSet(S1, s) ELSE S1

EmitStop(S, t, ls) ==
  IF ls = <<>> THEN S
  ELSE EmitStop(OnTaskEnd(S, Head(ls), t), t, Tail(ls))

\* a task ends without error: it is done, task_stop is emitted, then the
\* orchestrator starts what has become ready
TaskStop(S, t) ==
  LET S1 == [S EXCEPT !.st[t] = "done"]
  IN RunStep(EmitStop(S1, t, ActiveListeners(S1)))

\* onError of runSequence s for the event task_err of t: the listeners are
\* removed and the callback of the task s is called with the error
OnErrorIgnoring(S, s, t) ==
  OnTaskEnd(S, s, t)

OnError(S, s, t) ==
  IF ~S.rs[s].active THEN S
  ELSE TaskErr([S EXCEPT !.rs[s].active = FALSE,
                         !.rs[s].err = [task |-> t, step |-> S.rs[s].idx - 1]], s)

EmitErr(S, t, ls) ==
  IF ls = <<>> THEN S
  ELSE EmitErr(OnError(S, Head(ls), t), t, Tail(ls))

\* a task ends with an error: task_err is emitted and the orchestrator stops
TaskErr(S, t) ==
  LET S1 == [S EXCEPT !.st[t] = "failed",
                      !.firstErr = IF S.firstErr = NoErr
                                   THEN [task |-> t, step |-> StepOf(S, t)]
                                   ELSE S.firstErr]
      S2 == EmitErr(S1, t, ActiveListeners(S1))
  IN [S2 EXCEPT !.isRunning = FALSE]

Running(S) == {t \in Tasks : S.st[t] = "running"}

\* --------------------------------------------------------- effect of a task
DistAfter(t) ==
  CASE t = "clean" -> CleanTree(dist)
    [] t = "copy" -> CopyDist(dist)
    [] t = "styles" -> StyleDist(dist, app, Passing(app, cwdOut, "styles"))
    [] t = "elements" -> StyleDist(dist, app, Passing(app, cwdOut, "elements"))
    [] t = "images" -> ImagesDist(dist)
    [] t = "fonts" -> FontsDist(dist)
    [] t = "html" -> HtmlDist(dist)
    [] t = "vulcanize" -> VulcanizeDist(dist)
    [] t = "clean-dist" -> CleanDistDist(dist)
    [] t = "minify-dist" -> MinifyDistDist(dist)
    [] t = "cache-config" -> CacheConfigDist(dist)
    [] t = "fix-path-sw-toolbox" -> FixPathDist(dist)
    [] t = "revision" -> RevisionDist(dist)
    [] OTHER -> dist

TmpAfter(t) ==
  CASE t = "clean" -> CleanTree(tmp)
    [] t = "styles" -> StyleTmp(tmp, app, Passing(app, cwdOut, "styles"))
    [] t = "elements" -> StyleTmp(tmp, app, Passing(app, cwdOut, "elements"))
    [] OTHER -> tmp

PublishedAfter(t) ==
  CASE t \in DeployTasks -> Publish(published, EnvOf(t), dist)
    [] t = "deploy:promote" -> Promote(published)
    [] OTHER -> published

\* ---------------------------------------------------------- history variables
NoFile == File("", 0, <<>>, {})

StyleDirOf(t) == IF t = "styles" THEN "styles" ELSE "elements"

FreshProc ==
  [src |-> app,
   distAtStart |-> dist,
   tmpAtStart |-> tmp,
   manifest |-> NoFile,
   preRev |-> EmptyTree,
   revRecord |-> EmptyTree,
   revised |-> FALSE,
   styleRun |-> [o \in StyleFiles |-> "none"],
   wasSame |-> [o \in StyleFiles |-> FALSE],
   lastDigest |-> [o \in StyleFiles |-> 0],
   cc |-> "none",
   ccCalls |-> 0,
   ccErr |-> "none",
   globbed |-> <<>>]

ProcAfter(t) ==
  CASE t = "revision" ->
         [proc EXCEPT !.preRev = dist, !.revRecord = RevRecord(dist), !.revised = TRUE]
    [] t \in {"styles", "elements"} ->
         LET mine == StyleSrc(StyleDirOf(t))
             pass == Passing(app, cwdOut, StyleDirOf(t))
         IN [proc EXCEPT
               !.styleRun = [o \in StyleFiles |->
                               IF o \notin mine THEN @[o]
                               ELSE IF o \in pass THEN "processed" ELSE "skipped"],
               !.wasSame = [o \in StyleFiles |->
                              IF o \in mine THEN proc.lastDigest[o] = app.digest[o] ELSE @[o]],
               !.lastDigest = [o \in StyleFiles |->
                                 IF o \in mine /\ o \in pass THEN app.digest[o] ELSE @[o]]]
    [] OTHER -> proc

\* ----------------------------------------------------------------- actions
\* the tasks that can be named on the command line in this model
BuildInvocable == {"default", "pre-deploy", "revision"}

DeployInvocable == DeployTasks \cup {"deploy:promote"}

Invocable == BuildInvocable \cup DeployInvocable

\* gulp <task>: a new process, a fresh task table, gulp.start(task)
Start(t) ==
  /\ cli = "idle"
  /\ cli' = "busy"
  /\ invoked' = t
  /\ runs' = runs + 1
  /\ orch' = StartNames(FreshOrch, {t})
  /\ proc' = [FreshProc EXCEPT !.lastDigest = proc.lastDigest]
  /\ UNCHANGED <<failures, edits, userPipe, app, cwdOut, tmp, dist, published, last,
                 registry, regpc, loaded, firstReg>>

\* one process in a behaviour; 'scenario' exists when a pipeline was given to it
InvokeOnce(t) == runs = 0 /\ (userPipe # <<>> <=> t = "scenario") /\ Start(t)

\* one process after the other
Invoke(t) == runs < MaxRuns /\ Start(t)

\* gulp.src reads the content of every file it lists: the stream of a style
\* task gets to its end only when each of its sources can be read
ReadableAlways(t) == TRUE

Readable(t) ==
  t \in {"styles", "elements"} => \A o \in StyleSrc(StyleDirOf(t)) : app.readable[o]

\* a running task's stream or callback ends without error
FinishOk(t) ==
  /\ cli = "busy"
  /\ t # "cache-config"
  /\ orch.st[t] = "running"
  /\ Readable(t)
  /\ orch' = TaskStop(orch, t)
  /\ dist' = DistAfter(t)
  /\ tmp' = TmpAfter(t)
  /\ published' = PublishedAfter(t)
  /\ proc' = ProcAfter(t)
  /\ UNCHANGED <<cli, invoked, runs, failures, edits, userPipe, app, cwdOut, last,
                 registry, regpc, loaded, firstReg>>

\* a running task's stream or callback ends with an error
FinishFail(t) ==
  /\ cli = "busy"
  /\ t # "cache-config"
  /\ orch.st[t] = "running"
  /\ failures < MaxFailures
  /\ failures' = failures + 1
  /\ orch' = TaskErr(orch, t)
  /\ UNCHANGED <<cli, invoked, runs, edits, userPipe, app, cwdOut, tmp, dist, published,
                 proc, last, registry, regpc, loaded, firstReg>>

\* the callback of cache-config is called: the task ends, when it is running
Callback(S, error) ==
  IF S.st["cache-config"] # "running" THEN S
  ELSE IF error THEN TaskErr(S, "cache-config") ELSE TaskStop(S, "cache-config")

\* cache-config: glob calls back, with an error or with the files it lists
CacheConfigGlob(error) ==
  /\ cli = "busy"
  /\ orch.st["cache-config"] = "running"
  /\ proc.cc = "none"
  /\ error => failures < MaxFailures
  /\ failures' = IF error THEN failures + 1 ELSE failures
  /\ orch' = IF error THEN Callback(orch, TRUE) ELSE orch
  /\ proc' = [proc EXCEPT
                !.cc = AfterGlob(error),
                !.ccCalls = IF error THEN @ + 1 ELSE @,
                !.ccErr = IF error THEN "glob" ELSE @,
                !.globbed = IF error THEN @ ELSE Glob(dist)]
  /\ UNCHANGED <<cli, invoked, runs, edits, userPipe, app, cwdOut, tmp, dist, published,
                 last, registry, regpc, loaded, firstReg>>

\* cache-config: fs.writeFile calls back, the file written or the write failed
CacheConfigWrite(error) ==
  /\ cli = "busy"
  /\ proc.cc = "write"
  /\ error => failures < MaxFailures
  /\ failures' = IF error THEN failures + 1 ELSE failures
  /\ orch' = Callback(orch, error)
  /\ IF error
     THEN dist' \in {dist, Put(dist, pManifest, Truncated)}
     ELSE dist' = Put(dist, pManifest, ManifestOf(proc.globbed))
  /\ proc' = [proc EXCEPT
                !.cc = "called",
                !.ccCalls = @ + 1,
                !.ccErr = IF error THEN "write" ELSE @,
                !.manifest = IF error THEN @ ELSE ManifestOf(proc.globbed)]
  /\ UNCHANGED <<cli, invoked, runs, edits, userPipe, app, cwdOut, tmp, published,
                 last, registry, regpc, loaded, firstReg>>

\* the publish procedure of a deploy task fails (PublishError)
PublishFail(t) == t \in DeployTasks \cup {"deploy:promote"} /\ FinishFail(t)

NoLast ==
  [task |-> "none", result |-> "none", err |-> NoErr,
   src |-> [digest |-> [o \in StyleFiles |-> 0], mtime |-> [o \in StyleFiles |-> 0],
           readable |-> [o \in StyleFiles |-> TRUE]],
   manifest |-> NoFile, revised |-> FALSE, revRecord |-> EmptyTree, tree |-> EmptyTree]

Result(S) == IF S.firstErr = NoErr THEN "Completed" ELSE "Failed"

\* the process exits when nothing is left running
Exit ==
  /\ cli = "busy"
  /\ Running(orch) = {}
  /\ proc.cc # "write"
  /\ cli' = "idle"
  /\ last' = [task |-> invoked, result |-> Result(orch), err |-> orch.firstErr,
              src |-> proc.src, manifest |-> proc.manifest, revised |-> proc.revised,
              revRecord |-> proc.revRecord, tree |-> dist]
  /\ orch' = FreshOrch
  /\ invoked' = "none"
  /\ UNCHANGED <<runs, failures, edits, userPipe, app, cwdOut, tmp, dist, published, proc,
                 registry, regpc, loaded, firstReg>>

\* gulp.src cannot read a source of a running style task: the stream that
\* reads emits an error no listener takes, and the exception ends the process
\* with whatever else was running; nothing of the task is written
StreamCrash(t) ==
  /\ cli = "busy"
  /\ orch.st[t] = "running"
  /\ ~Readable(t)
  /\ cli' = "idle"
  /\ last' = [task |-> invoked, result |-> "Failed",
              err |-> [task |-> t, step |-> StepOf(orch, t)],
              src |-> proc.src, manifest |-> proc.manifest, revised |-> proc.revised,
              revRecord |-> proc.revRecord, tree |-> dist]
  /\ orch' = FreshOrch
  /\ invoked' = "none"
  /\ UNCHANGED <<runs, failures, edits, userPipe, app, cwdOut, tmp, dist, published, proc,
                 registry, regpc, loaded, firstReg>>

\* the permissions of a style source are changed between two processes
Chmod(o) ==
  /\ cli = "idle"
  /\ edits < MaxEdits
  /\ edits' = edits + 1
  /\ app' = [app EXCEPT !.readable[o] = ~@]
  /\ UNCHANGED <<cli, invoked, runs, orch, failures, userPipe, cwdOut, tmp, dist, published,
                 proc, last, registry, regpc, loaded, firstReg>>

\* the developer changes the content of a style source between two processes
EditStyle(o) ==
  /\ cli = "idle"
  /\ runs >= 1
  /\ edits < MaxEdits
  /\ app.mtime[o] < MaxTime
  /\ edits' = edits + 1
  /\ app' = [app EXCEPT !.digest[o] = (@ % NDigests) + 1, !.mtime[o] = @ + 1]
  /\ UNCHANGED <<cli, invoked, runs, orch, failures, userPipe, cwdOut, tmp, dist, published,
                 proc, last, registry, regpc, loaded, firstReg>>

\* the developer touches a style source: new modification time, same content
TouchStyle(o) ==
  /\ cli = "idle"
  /\ runs >= 1
  /\ edits < MaxEdits
  /\ app.mtime[o] < MaxTime
  /\ edits' = edits + 1
  /\ app' = [app EXCEPT !.mtime[o] = @ + 1]
  /\ UNCHANGED <<cli, invoked, runs, orch, failures, userPipe, cwdOut, tmp, dist, published,
                 proc, last, registry, regpc, loaded, firstReg>>

InitFiles ==
  /\ app = [digest |-> [o \in StyleFiles |-> 1], mtime |-> [o \in StyleFiles |-> 0],
           readable |-> [o \in StyleFiles |-> TRUE]]
  /\ cwdOut \in [StyleFiles -> {Absent, 1}]
  /\ tmp = EmptyTree
  /\ dist = EmptyTree
  /\ published = [e \in Envs |-> EmptyTree]

InitProcess ==
  /\ cli = "idle"
  /\ invoked = "none"
  /\ runs = 0
  /\ orch = FreshOrch
  /\ failures = 0
  /\ edits = 0
  /\ InitFiles
  /\ proc = [src |-> [digest |-> [o \in StyleFiles |-> 1], mtime |-> [o \in StyleFiles |-> 0],
           readable |-> [o \in StyleFiles |-> TRUE]],
             distAtStart |-> EmptyTree,
             tmpAtStart |-> EmptyTree,
             manifest |-> NoFile,
             preRev |-> EmptyTree,
             revRecord |-> EmptyTree,
             revised |-> FALSE,
             styleRun |-> [o \in StyleFiles |-> "none"],
             wasSame |-> [o \in StyleFiles |-> FALSE],
             lastDigest |-> [o \in StyleFiles |-> 0],
             cc |-> "none",
             ccCalls |-> 0,
             ccErr |-> "none",
             globbed |-> <<>>]
  /\ last = NoLast

\* gulpfile.js is loaded
InitLoaded ==
  /\ registry = LoadedRegistry
  /\ regpc = Len(GulpfileTasks)
  /\ loaded = "done"
  /\ firstReg = LoadedRegistry

InitRun == InitProcess /\ InitLoaded /\ userPipe = <<>>

\* ---------------------------------------------------- a pipeline of any shape
\* pipelines of the tasks A, B, C, D given to runSequence by the task 'scenario'
ScenarioPipes ==
  { << <<"A">>, <<"B", "C">>, <<"D">> >>,
    << <<"A">>, <<"B">>, <<"C">>, <<"D">> >>,
    << <<"A", "B">>, <<"C", "D">> >>,
    << <<"A", "B", "C">>, <<"D">> >>,
    << <<"A">>, <<"B", "C", "D">> >>,
    << <<"D">>, <<"C", "B">>, <<"A">> >> }

\* a file of the directory tasks defines the task 'scenario' as
\* runSequence(...pipe, cb)
DefineScenario(pipe) ==
  /\ cli = "idle"
  /\ runs = 0
  /\ userPipe = <<>>
  /\ userPipe' = pipe
  /\ UNCHANGED <<cli, invoked, runs, orch, failures, edits, app, cwdOut, tmp, dist,
                 published, proc, last, registry, regpc, loaded, firstReg>>

Next ==
  \/ \E pipe \in ScenarioPipes : DefineScenario(pipe)
  \/ \E t \in Invocable \cup {"scenario"} : InvokeOnce(t)
  \/ \E t \in LeafTasks : FinishOk(t)
  \/ \E t \in LeafTasks : FinishFail(t)
  \/ \E error \in BOOLEAN : CacheConfigGlob(error)
  \/ \E error \in BOOLEAN : CacheConfigWrite(error)
  \/ Exit

\* one gulp process, in which any task may fail
Spec == InitRun /\ [][Next]_vars

NextRebuild ==
  \/ \E t \in BuildInvocable : Invoke(t)
  \/ \E t \in LeafTasks : FinishOk(t)
  \/ CacheConfigGlob(FALSE)
  \/ CacheConfigWrite(FALSE)
  \/ Exit
  \/ \E o \in StyleFiles : EditStyle(o)
  \/ \E o \in StyleFiles : TouchStyle(o)

\* builds one after the other, the sources changing in between; no task fails
SpecRebuild == InitRun /\ [][NextRebuild]_vars

NextDeploy ==
  \/ \E t \in DeployInvocable : Invoke(t)
  \/ \E t \in LeafTasks : FinishOk(t)
  \/ \E t \in LeafTasks : PublishFail(t)
  \/ CacheConfigGlob(FALSE)
  \/ CacheConfigWrite(FALSE)
  \/ Exit

InitDeploy == InitRun /\ cwdOut = [o \in StyleFiles |-> Absent]

\* deploys one after the other; the build tasks succeed, publishing may fail
SpecDeploy == InitDeploy /\ [][NextDeploy]_vars

NextUnreadable ==
  \/ \E t \in BuildInvocable : Invoke(t)
  \/ \E t \in LeafTasks : FinishOk(t)
  \/ \E t \in LeafTasks : StreamCrash(t)
  \/ CacheConfigGlob(FALSE)
  \/ CacheConfigWrite(FALSE)
  \/ Exit
  \/ \E o \in StyleFiles : Chmod(o)

\* builds one after the other, a style source being unreadable for some
SpecUnreadable == InitRun /\ [][NextUnreadable]_vars

\* ------------------------------------------------------ loading gulpfile.js
\* names and dependencies a file of the directory tasks may register
CustomNames == {"styles", "default", "deploy:promote", "custom"}

CustomDeps == {{}, {"clean"}}

RegVarsUnchanged ==
  UNCHANGED <<cli, invoked, runs, orch, failures, edits, userPipe, app, cwdOut, tmp, dist,
              published, proc, last>>

NoteFirst(first, e) ==
  IF e.name \in DOMAIN first THEN first ELSE Register(first, e)

\* the next gulp.task(...) of gulpfile.js
RegisterNext ==
  /\ loaded = "gulpfile"
  /\ regpc < Len(GulpfileTasks)
  /\ registry' = Register(registry, GulpfileTasks[regpc + 1])
  /\ firstReg' = NoteFirst(firstReg, GulpfileTasks[regpc + 1])
  /\ regpc' = regpc + 1
  /\ UNCHANGED loaded
  /\ RegVarsUnchanged

\* require('web-component-tester').gulp.init(gulp)
WctInit ==
  /\ loaded = "gulpfile"
  /\ regpc = Len(GulpfileTasks)
  /\ registry' = RegisterAll(registry, WctTasks)
  /\ firstReg' = NoteFirst(NoteFirst(firstReg, WctTasks[1]), WctTasks[2])
  /\ loaded' = "wct"
  /\ UNCHANGED regpc
  /\ RegVarsUnchanged

\* a file of the directory tasks calls gulp.task(n, d, fn)
CustomTask(n, d) ==
  /\ loaded = "wct"
  /\ regpc < Len(GulpfileTasks) + MaxCustom
  /\ registry' = Register(registry, [name |-> n, dep |-> d, fn |-> "tasks"])
  /\ firstReg' = NoteFirst(firstReg, [name |-> n, dep |-> d, fn |-> "tasks"])
  /\ regpc' = regpc + 1
  /\ UNCHANGED loaded
  /\ RegVarsUnchanged

\* require-dir('tasks') returns, or throws and the error is caught
LoadEnd ==
  /\ loaded = "wct"
  /\ loaded' = "done"
  /\ UNCHANGED <<registry, regpc, firstReg>>
  /\ RegVarsUnchanged

InitRegistry ==
  /\ InitProcess
  /\ cwdOut = [o \in StyleFiles |-> Absent]
  /\ userPipe = <<>>
  /\ registry = NoTasks
  /\ regpc = 0
  /\ loaded = "gulpfile"
  /\ firstReg = NoTasks

NextRegistry ==
  \/ RegisterNext
  \/ WctInit
  \/ \E n \in CustomNames, d \in CustomDeps : CustomTask(n, d)
  \/ LoadEnd

SpecRegistry == InitRegistry /\ [][NextRegistry]_vars

\* =================================================================== claims
\* the sequences running or run in this process
Sequences == {s \in SeqTasks : orch.st[s] # "idle"}

\* some task of step j of sequence s has been started
StepStarted(s, j) == \E t \in Range(PipelineOf(s)[j]) : orch.st[t] # "idle"

StepDone(s, i) == \A t \in Range(PipelineOf(s)[i]) : orch.st[t] = "done"

\* the steps of 'default' as gulpfile.js 293-300 declares them
DeclaredDefault ==
  << {"copy", "styles"}, {"elements"},
     {"jshint", "images", "fonts", "html", "fetch-newest-analytics"},
     {"vulcanize"}, {"clean-dist", "minify-dist"}, {"cache-config"} >>

\* C1: in every pipeline that runSequence is running or has run (that of
\* 'default', that of 'pre-deploy', each pipeline of 'scenario'), a task of a
\* step has started
\* only if every task of every earlier step is done: the steps start in the
\* declared order and step i+1 never starts while a task of step i is running.
\* The same is stated of the six steps of the default pipeline, written out.
C1_StepsInOrder ==
  /\ \A s \in Sequences : \A i, j \in 1..Len(PipelineOf(s)) :
       (i < j /\ StepStarted(s, j)) => StepDone(s, i)
  /\ orch.st["default"] # "idle" =>
       \A i, j \in 1..Len(DeclaredDefault) :
         (i < j /\ \E t \in DeclaredDefault[j] : orch.st[t] # "idle")
           => \A u \in DeclaredDefault[i] : orch.st[u] = "done"

\* the last step of the default pipeline is running, after five steps
C1_Witness ==
  /\ invoked = "default"
  /\ orch.st["cache-config"] = "running"
  /\ orch.rs["default"].idx = 6

PipeABCD == << <<"A">>, <<"B", "C">>, <<"D">> >>

PreDeployTasks ==
  {"clean", "default", "fix-path-sw-toolbox", "revision"} \cup UNION Range(DeclaredDefault)

\* C3: a deploy task of a real environment has started (its publish procedure
\* runs or has run) only if 'pre-deploy' is done, which needs every task of
\* it done; and when a task of pre-deploy has failed no deploy task has
\* started and nothing was published.
C3_DeployAfterPreDeploy ==
  \A d \in DeployTasks :
    /\ orch.st[d] # "idle" =>
         /\ orch.st["pre-deploy"] = "done"
         /\ orch.rs["pre-deploy"].err = NoErr
         /\ \A t \in PreDeployTasks : orch.st[t] = "done"
    /\ (\E t \in PreDeployTasks \cup {"pre-deploy"} : orch.st[t] = "failed") =>
         /\ orch.st[d] = "idle"
         /\ published[EnvOf(d)] = EmptyTree

C3_Witness ==
  /\ orch.st["deploy:prod"] = "done"
  /\ published["production"] # EmptyTree
  /\ published["production"] = dist

\* C4: in a process started as deploy:promote no other task is ever started
\* (no clean, no task of the default pipeline, no fix-path-sw-toolbox, no
\* revision), .tmp and dist stay as they were, the promote task is started at
\* once whatever was built or published before, and when it is done
\* production serves what staging serves.
C4_PromoteWithoutBuild ==
  (cli = "busy" /\ invoked = "deploy:promote") =>
     /\ \A t \in Tasks \ {"deploy:promote"} : orch.st[t] = "idle"
     /\ orch.st["deploy:promote"] # "idle"
     /\ dist = proc.distAtStart
     /\ tmp = proc.tmpAtStart
     /\ orch.st["deploy:promote"] = "done" =>
          published["production"] = published["staging"]

\* promote is done, production serves the tree that was deployed to staging,
\* and no process has deployed to production
C4_Witness ==
  /\ cli = "busy"
  /\ invoked = "deploy:promote"
  /\ orch.st["deploy:promote"] = "done"
  /\ last.task = "deploy:stag"
  /\ last.result = "Completed"
  /\ runs = 2
  /\ published["production"] = last.tree
  /\ published["production"] # EmptyTree

\* C5 (as claimed): a style file whose content digest is the one it had when
\* it was last processed is skipped by the style task, and a file is skipped
\* only then (the decision compares content digests, not modification times).
C5_Original ==
  \A o \in StyleFiles :
    proc.styleRun[o] # "none" => (proc.styleRun[o] = "skipped" <=> proc.wasSame[o])

\* the part of C5 about unchanged files alone: unchanged, hence skipped
C5_UnchangedSkipped ==
  \A o \in StyleFiles :
    (proc.styleRun[o] # "none" /\ proc.wasSame[o]) => proc.styleRun[o] = "skipped"

\* the current process is over and completed
Completed == cli = "busy" /\ Running(orch) = {} /\ Result(orch) = "Completed"

\* the last process and the current one both built (wrote a manifest) and
\* completed, from one source tree
SameBuild ==
  /\ Completed
  /\ last.result = "Completed"
  /\ last.manifest # NoFile
  /\ proc.manifest # NoFile
  /\ last.src = proc.src

RevisedNames(rec) == {rec[p] : p \in DOMAIN rec}

RefsOf(d, q) == d[q].refs \cup Range(d[q].precache)

\* the files revision has just renamed
Renamed == DOMAIN RevMapping(proc.preRev)

RevisionJustDone == cli = "busy" /\ proc.revised /\ orch.st["revision"] = "done"

\* after revision no text file refers to the old path of a renamed file, and
\* every reference to a revisioned path names a file of the tree
NoBareReference ==
  /\ \A q \in DOMAIN dist : IsText(q) => RefsOf(dist, q) \cap Renamed = {}
  /\ \A q \in DOMAIN dist : \A r \in RefsOf(dist, q) : r.rev # <<>> => Has(dist, r)
  /\ \A P \in Renamed : ~Has(dist, P) /\ Has(dist, RevMapping(proc.preRev)[P])

C9_Original ==
  \A n \in DOMAIN registry : registry[n] = firstReg[n]

\* the last process was a deploy whose publish procedure failed, and the
\* same deploy task is run again
DeployRetried ==
  /\ cli = "busy"
  /\ last.task \in DeployTasks
  /\ last.result = "Failed"
  /\ last.err.task = last.task
  /\ invoked = last.task

\* C10 (as claimed): the retry of a deploy that failed in publishing works on
\* the tree the failed attempt left, without rebuilding it, and publishes it.
C10_Original ==
  DeployRetried =>
    /\ dist = last.tree
    /\ orch.st[invoked] = "done" => published[EnvOf(invoked)] = last.tree

DefaultTasks == {"clean", "default"} \cup UNION Range(DeclaredDefault)

\* C12: in a process that runs pre-deploy, fix-path-sw-toolbox has started
\* only if clean, every task of the default pipeline and default itself are
\* done; revision has started only if fix-path-sw-toolbox is done as well; and
\* once a task of default has failed, pre-deploy has failed too and neither
\* fix-path-sw-toolbox nor revision has started.
C12_NestedPreDeploy ==
  orch.st["pre-deploy"] # "idle" =>
    /\ orch.st["fix-path-sw-toolbox"] # "idle" =>
          \A t \in DefaultTasks : orch.st[t] = "done"
    /\ orch.st["revision"] # "idle" =>
          \A t \in DefaultTasks \cup {"fix-path-sw-toolbox"} : orch.st[t] = "done"
    /\ (\E t \in DefaultTasks : orch.st[t] = "failed") =>
          /\ orch.st["pre-deploy"] = "failed"
          /\ orch.rs["pre-deploy"].err # NoErr
          /\ orch.st["fix-path-sw-toolbox"] = "idle"
          /\ orch.st["revision"] = "idle"

\* a task of the fifth step of default has failed inside pre-deploy while
\* the other task of the step was done
C12_Witness ==
  /\ invoked = "pre-deploy"
  /\ orch.st["minify-dist"] = "failed"
  /\ orch.st["clean-dist"] = "done"
  /\ orch.st["default"] = "failed"
  /\ orch.st["pre-deploy"] = "failed"

\* the tasks of the default pipeline that write or check assets
AssetTasks == UNION Range(DeclaredDefault) \ {"cache-config"}

\* C13: in a process that runs default, a task of the pipeline has started
\* only if clean is done (clean is never running beside a task that writes),
\* cache-config has started only if every other task of the pipeline is done,
\* and when default is done the manifest in dist is the one computed from
\* what dist holds then.
C13_CleanFirstManifestLast ==
  orch.st["default"] # "idle" =>
    /\ orch.st["clean"] = "done"
    /\ \A t \in AssetTasks \cup {"cache-config"} :
          orch.st[t] # "idle" => orch.st["clean"] = "done"
    /\ orch.st["cache-config"] # "idle" => \A t \in AssetTasks : orch.st[t] = "done"
    /\ (orch.st["default"] = "done" /\ orch.st["fix-path-sw-toolbox"] # "done") =>
          /\ Has(dist, pManifest)
          /\ dist[pManifest] = Manifest(Remove(dist, pManifest))

\* default is done and its manifest lists outputs of the second, the third
\* and the fourth step
C13_Witness ==
  /\ invoked = "default"
  /\ orch.st["default"] = "done"
  /\ Has(dist, pManifest)
  /\ {pElCss, pApp, pVulcJs} \subseteq Range(dist[pManifest].precache)

\* the members of step i of the pipeline of 'scenario' that have failed
FailedOf(i) == {k \in 1..Len(userPipe[i]) : orch.st[userPipe[i][k]] = "failed"}

C14_FirstObserved ==
  /\ \A i \in 1..Len(userPipe) :
       (orch.rs["scenario"].idx > i) => \A t \in Range(userPipe[i]) : orch.st[t] = "done"
  /\ [][orch.firstErr # NoErr /\ cli' = "busy" => orch'.firstErr = orch.firstErr]_vars

\* the paths of dist that task t, ending now, writes or deletes
Writes(t) ==
  LET d2 == DistAfter(t)
  IN {p \in (DOMAIN dist) \cup (DOMAIN d2) :
        ~(p \in DOMAIN dist /\ p \in DOMAIN d2 /\ dist[p] = d2[p])}

\* the tasks of the concurrent steps whose function is written in gulpfile.js
CodedStepTasks == {"copy", "styles", "jshint", "images", "fonts", "html"}

\* C15, for the tasks written in gulpfile.js: two tasks of one step of the
\* default pipeline that are running together write and delete no common path
\* of dist.
C15_CodedTasksDisjoint ==
  \A i \in 1..Len(DefaultPipeline) :
    \A t, u \in Range(DefaultPipeline[i]) \cap CodedStepTasks :
      (t # u /\ orch.st[t] = "running" /\ orch.st[u] = "running")
        => Writes(t) \cap Writes(u) = {}

\* html and images are running together and each has something to write
C15_CodedWitness ==
  /\ orch.st["html"] = "running"
  /\ orch.st["images"] = "running"
  /\ Writes("html") # {}
  /\ Writes("images") # {}

\* C16 (as claimed): from the end of cache-config on, through
\* fix-path-sw-toolbox and revision, the fingerprint the manifest of dist
\* holds is the digest of the precache list the same manifest holds.
C16_Original ==
  (cli = "busy" /\ orch.st["cache-config"] = "done" /\ Has(dist, pManifest)) =>
     dist[pManifest].fp = Md5(dist[pManifest].precache)

\* the part of C16 up to the start of revision
C16_UntilRevision ==
  (cli = "busy" /\ orch.st["cache-config"] = "done" /\ Has(dist, pManifest)
     /\ orch.st["revision"] # "done") =>
     dist[pManifest].fp = Md5(dist[pManifest].precache)

\* the file of dist built from style source o, under its name or a revisioned one
StyleOutputs(o) == {p \in DOMAIN dist : p.orig = o}

\* C17 (as claimed): when default is done, every style source (of styles and
\* of elements) has its output in dist.
C17_Original ==
  (cli = "busy" /\ orch.st["default"] = "done") =>
     \A o \in StyleFiles : StyleOutputs(o) # {}

\* the same where the directory the change detection compares with holds no
\* file of the name
C17_NoTargetFile ==
  (cli = "busy" /\ orch.st["default"] = "done") =>
     \A o \in StyleFiles : cwdOut[o] = Absent => StyleOutputs(o) # {}

CacheConfigEnded == orch.st["cache-config"] \in {"done", "failed"}

\* C18: cache-config calls its callback at most once, and once when it has
\* ended; when glob fails the task fails and no manifest is written; the
\* task is done only with the manifest written from the files glob listed;
\* a failed write makes the task fail; and default is never done without a
\* manifest in dist.
C18_CallbackOnce ==
  cli = "busy" =>
    /\ proc.ccCalls <= 1
    /\ CacheConfigEnded => proc.ccCalls = 1 /\ proc.cc = "called"
    /\ proc.ccErr = "glob" =>
          /\ orch.st["cache-config"] = "failed"
          /\ ~Has(dist, pManifest)
          /\ proc.manifest = NoFile
    /\ proc.ccErr = "write" => orch.st["cache-config"] = "failed"
    /\ orch.st["cache-config"] = "done" =>
          /\ proc.ccErr = "none"
          /\ proc.manifest = ManifestOf(proc.globbed)
          /\ Has(dist, pManifest)
          /\ orch.st["revision"] # "done" => dist[pManifest] = proc.manifest
    /\ orch.st["default"] = "done" =>
          /\ orch.st["cache-config"] = "done"
          /\ Has(dist, pManifest)

\* glob has failed in a build that got to its last step: the callback was
\* called once, with the error, and default has failed
C18_Witness ==
  /\ cli = "busy"
  /\ invoked = "default"
  /\ proc.ccErr = "glob"
  /\ proc.ccCalls = 1
  /\ orch.st["default"] = "failed"
  /\ orch.st["minify-dist"] = "done"

====
